---- MODULE Spec2Model ----
(***************************************************************************)
(* Model of script.js: the reachability-probing engine of the network      *)
(* dashboard.                                                              *)
(*                                                                         *)
(* JavaScript runs one event-loop task at a time and drains every promise  *)
(* continuation (microtask) the task made runnable before the next task    *)
(* starts.  Each action below is one event-loop task together with the     *)
(* continuations it makes runnable: the page load, a click, a firing of    *)
(* the interval timer, the settling of one fetch, or the firing of one     *)
(* probe's abort timer.                                                    *)
(*                                                                         *)
(* Time is kept per probe: `at` is performance.now() - t0 at the start of  *)
(* the phase the probe is in, `deadline` is the value of that clock at     *)
(* which the probe's setTimeout callback runs.                             *)
(***************************************************************************)
EXTENDS Integers, Sequences, FiniteSets, TLC

VARIABLES
    cfg,      \* TARGETS.length, CONCURRENCY and the network's response times
    state,    \* the Map `state`: target -> entry (NoEntry: key not in the Map)
    cyc,      \* one record per runChecks invocation, in order of invocation
    timer,    \* delay of the setInterval timer (0: not armed yet)
    summary,  \* the counts of summaryText as written by the last render()
    last,     \* the last checkTarget call that returned: what it saw and gave
    sched,    \* the interval timer so far: evaluations of the delay expression,
              \* and the time before each of its last two firings (0: none)
    done      \* per target, the last probe of it that returned: cycle and result

vars == <<cfg, state, cyc, timer, summary, last, sched, done>>

----------------------------------------------------------------------------
(* Program constants *)

REFRESH_EVERY_MS == 120000
TIMEOUT_MS == 8000
SLOW_MS == 1200
JITTER_MS == 1500

(* Bounds of the model *)

MaxTargets == 2
MaxConc == 2
MaxCycles == 3
MaxProbes == 4

\* latencyMs: null
Null == -1

\* HTTP status codes a readable response carries in the model.
StatusCodes == {200, 500}

\* Times (ms) one fetch may take to settle.
EngineDurations == {700}
ProbeDurations == {50, 300, 500, 700, 1200, 1300, 7500}

\* Values of Math.floor(Math.random() * 1500) sampled.
JitterSamples == {0, JITTER_MS - 1}

----------------------------------------------------------------------------
(* TARGETS and the state Map *)

\* TARGETS, by index; a target's url (the Map key) is identified with its index.
Targets == 0 .. (cfg.nT - 1)

Entry(status, latencyMs, note) ==
    [status |-> status, latencyMs |-> latencyMs, note |-> note]

\* state.get(url) of a key that was never set.
NoEntry == Entry("ABSENT", Null, "")

\* runChecks: { status: "CHECKING", latencyMs: null, ..., note: "" }
CheckingEntry == Entry("CHECKING", Null, "")

\* render(): the Summary loop.
Summarize(s) ==
    LET up == {t \in DOMAIN s : s[t].status \in {"UP", "UP_OPAQUE"}}
        down == {t \in DOMAIN s : s[t].status = "DOWN"}
    IN [up |-> Cardinality(up), down |-> Cardinality(down),
        checking |-> Cardinality(DOMAIN s) - Cardinality(up) - Cardinality(down)]

----------------------------------------------------------------------------
(* checkTarget *)

\* Response.ok
ResponseOk(status) == status >= 200 /\ status <= 299

Response(type, status) ==
    [type |-> type, status |-> status,
     ok |-> IF type = "opaque" THEN FALSE ELSE ResponseOk(status)]

\* What a no-cors fetch may resolve with: an opaque response (status 0), or a
\* same-origin one whose status is readable.
Responses2 ==
    {Response("opaque", 0)} \cup {Response("basic", s) : s \in StatusCodes}

\* `HTTP ${res.status}`
HttpNote(status) ==
    CASE status = 200 -> "HTTP 200"
      [] status = 500 -> "HTTP 500"
      [] OTHER -> "HTTP"

\* performance.now() - t0
ElapsedPerPhase(now, t0, phaseStart) == now - phaseStart
Elapsed(now, t0, phaseStart) == now - t0

\* The classification of a readable Phase-1 response.
Phase1ResultInclusive(res, ms) ==
    IF res.ok
    THEN Entry(IF ms >= SLOW_MS THEN "SLOW" ELSE "UP", ms, HttpNote(res.status))
    ELSE Entry("DOWN", ms, HttpNote(res.status))
Phase1Result(res, ms) ==
    IF res.ok
    THEN Entry(IF ms > SLOW_MS THEN "SLOW" ELSE "UP", ms, HttpNote(res.status))
    ELSE Entry("DOWN", ms, HttpNote(res.status))

\* The classification of a resolved Phase-2 (no-cors) response.
Phase2Result(res2, ms2) ==
    IF res2.type = "opaque"
    THEN Entry(IF ms2 > SLOW_MS THEN "SLOW" ELSE "UP_OPAQUE", ms2, "CORS blocked details")
    ELSE Entry(IF ms2 > SLOW_MS THEN "SLOW" ELSE "UP", ms2, "OK")

\* catch (err2)
CatchResultRethrow(err2) == Entry("REJECTED", Null, err2)
CatchResultWithLatency(err2) ==
    Entry("DOWN", 0, IF err2 = "AbortError" THEN "timeout" ELSE "unreachable")
CatchResult(err2) ==
    Entry("DOWN", Null, IF err2 = "AbortError" THEN "timeout" ELSE "unreachable")

\* The signal handed to the Phase-2 fetch is controller.signal again: the abort
\* comes at the deadline armed when the call started.
Phase2DeadlineRearmed(deadline, now) == now + TIMEOUT_MS
Phase2Deadline(deadline, now) == deadline

\* fetch(url, { ..., mode: "no-cors", signal: controller.signal }): a fetch
\* given a signal that is already aborted rejects with AbortError at once and
\* sends nothing.
Phase2SentNoSignal(aborted) == TRUE
Phase2Sent(aborted) == ~aborted

\* checkTarget up to its first await: the controller and its timer are made,
\* t0 is read, the Phase-1 fetch is issued.
checkTargetStart(idx) ==
    [pc |-> "p1", idx |-> idx, t0 |-> 0, at |-> 0, deadline |-> TIMEOUT_MS]

\* What `last` records of a call.
\*   o1, t1: how and when (on the probe's clock) the Phase-1 fetch settled
\*   o2, t2: the same for the Phase-2 fetch ("none": it was never called)
\*   code:   the status of the response received, 0 if none was readable
\*   calls:  the number of fetch calls made
\*   sent2:  whether the Phase-2 fetch sent a request
Call(idx, o1, t1, o2, t2, code, calls, sent2, result) ==
    [idx |-> idx, o1 |-> o1, t1 |-> t1, o2 |-> o2, t2 |-> t2, code |-> code,
     calls |-> calls, sent2 |-> sent2, result |-> result]

NoCall == Call(-1, "none", 0, "none", 0, 0, 0, FALSE, NoEntry)

----------------------------------------------------------------------------
(* runChecks *)

\* Array.from({ length: CONCURRENCY }, ...)
NumWorkersPlusOne(conc) == conc + 1
NumWorkers(conc) == conc

\* i++
PostIncrementSkip(i) == i + 2
PostIncrement(i) == i + 1

\* One pass of a worker through the head of its while loop, up to its next
\* await or its return.
WorkerLoop(c) ==
    IF c.i < cfg.nT
    THEN LET idx == c.i
         IN [c EXCEPT !.i = PostIncrement(c.i),
                      !.claimed[idx] = @ + 1,
                      !.probes = @ \cup {checkTargetStart(idx)}]
    ELSE [c EXCEPT !.returned = @ + 1]

\* The workers are started one after the other, each running to its first await.
RECURSIVE RunWorkers(_, _)
RunWorkers(c, k) ==
    IF k > NumWorkers(cfg.conc) THEN c ELSE RunWorkers(WorkerLoop(c), k + 1)

\* await Promise.all(workers)
PromiseAny(c) ==
    IF c.returned >= 1 THEN [c EXCEPT !.pc = "resolved"] ELSE c
PromiseAll(c) ==
    IF c.returned = NumWorkers(cfg.conc) THEN [c EXCEPT !.pc = "resolved"] ELSE c

\* state.set(target.url, { status, latencyMs, lastChecked, note: result.note || "" })
StoreEntry(result) == Entry(result.status, result.latencyMs, result.note)

\* runChecks up to `await Promise.all(workers)`.
NewCycle(kind) ==
    PromiseAll(RunWorkers(
        [pc |-> "running", kind |-> kind, i |-> 0,
         claimed |-> [t \in Targets |-> 0],
         probes |-> {}, returned |-> 0, renders |-> 1], 1))

runChecksRenderFirst(kind) ==
    /\ state' = [t \in Targets |-> CheckingEntry]
    /\ summary' = Summarize(state)
    /\ cyc' = Append(cyc, NewCycle(kind))
runChecks(kind) ==
    /\ state' = [t \in Targets |-> CheckingEntry]
    /\ summary' = Summarize(state')
    /\ cyc' = Append(cyc, NewCycle(kind))

\* The worker's continuation after `await checkTarget(...)`: the result is
\* stored, render() runs, the loop goes on; the cycle resolves with its last worker.
CompleteThrowOnDown(c, p, call) ==
    IF call.result.status = "DOWN"
    THEN /\ cyc' = [cyc EXCEPT ![c].probes = @ \ {p}]
         /\ last' = call
         /\ done' = [done EXCEPT ![call.idx] = [by |-> c, result |-> call.result]]
         /\ UNCHANGED <<state, summary>>
    ELSE /\ state' = [state EXCEPT ![call.idx] = StoreEntry(call.result)]
         /\ summary' = Summarize(state')
         /\ cyc' = [cyc EXCEPT ![c] = PromiseAll(WorkerLoop(
                         [@ EXCEPT !.probes = @ \ {p}, !.renders = @ + 1]))]
         /\ last' = call
         /\ done' = [done EXCEPT ![call.idx] = [by |-> c, result |-> call.result]]
CompleteBatched(c, p, call) ==
    /\ cyc' = [cyc EXCEPT ![c] = PromiseAll(WorkerLoop([@ EXCEPT !.probes = @ \ {p}]))]
    /\ last' = call
    /\ done' = [done EXCEPT ![call.idx] = [by |-> c, result |-> call.result]]
    /\ UNCHANGED <<state, summary>>
CompleteIfNewest(c, p, call) ==
    /\ state' = IF c = Len(cyc) THEN [state EXCEPT ![call.idx] = StoreEntry(call.result)]
                                ELSE state
    /\ summary' = Summarize(state')
    /\ cyc' = [cyc EXCEPT ![c] = PromiseAll(WorkerLoop(
                    [@ EXCEPT !.probes = @ \ {p}, !.renders = @ + 1]))]
    /\ last' = call
    /\ done' = [done EXCEPT ![call.idx] = [by |-> c, result |-> call.result]]
CompleteThenReturn(c, p, call) ==
    /\ state' = [state EXCEPT ![call.idx] = StoreEntry(call.result)]
    /\ summary' = Summarize(state')
    /\ cyc' = [cyc EXCEPT ![c] = PromiseAll(
                    [@ EXCEPT !.probes = @ \ {p}, !.renders = @ + 1, !.returned = @ + 1])]
    /\ last' = call
    /\ done' = [done EXCEPT ![call.idx] = [by |-> c, result |-> call.result]]
Complete(c, p, call) ==
    /\ state' = [state EXCEPT ![call.idx] = StoreEntry(call.result)]
    /\ summary' = Summarize(state')
    /\ cyc' = [cyc EXCEPT ![c] = PromiseAll(WorkerLoop(
                    [@ EXCEPT !.probes = @ \ {p}, !.renders = @ + 1]))]
    /\ last' = call
    /\ done' = [done EXCEPT ![call.idx] = [by |-> c, result |-> call.result]]

\* setInterval(..., REFRESH_EVERY_MS + Math.floor(Math.random() * 1500)): the
\* callback runs `delay` after the timer was set or last fired.
IntervalFiredWithoutJitter(s, delay) ==
    [s EXCEPT !.prevGap = s.lastGap, !.lastGap = REFRESH_EVERY_MS]
IntervalFired(s, delay) ==
    [s EXCEPT !.prevGap = s.lastGap, !.lastGap = delay]

\* The model follows a run while another cycle fits into its bounds: MaxCycles
\* runChecks invocations, MaxProbes checkTarget calls.
CanStartCycle ==
    /\ Len(cyc) < MaxCycles
    /\ (Len(cyc) + 1) * cfg.nT <= MaxProbes

Running(c) == cyc[c].pc = "running"
InFlight(c) == cyc[c].probes

----------------------------------------------------------------------------
(* Initial states *)

EngineConfigs ==
    [nT : 0 .. MaxTargets, conc : 1 .. MaxConc, durs : {EngineDurations}]

ProbeConfigs == [nT : {1}, conc : {1}, durs : {ProbeDurations}]

InitWith(configs) ==
    /\ cfg \in configs
    /\ state = [t \in Targets |-> NoEntry]
    /\ cyc = << >>
    /\ timer = 0
    /\ summary = [up |-> 0, down |-> 0, checking |-> 0]
    /\ last = NoCall
    /\ sched = [draws |-> 0, prevGap |-> 0, lastGap |-> 0]
    /\ done = [t \in Targets |-> [by |-> 0, result |-> NoEntry]]

Init == InitWith(EngineConfigs)

InitProbe == InitWith(ProbeConfigs)

----------------------------------------------------------------------------
(* Event-loop tasks *)

\* The script's top level: render(); runChecks(); setInterval(...).
Startup ==
    /\ cyc = << >>
    /\ timer = 0
    /\ runChecks("startup")
    /\ \E j \in JitterSamples : timer' = REFRESH_EVERY_MS + j
    /\ sched' = [sched EXCEPT !.draws = @ + 1]
    /\ UNCHANGED <<cfg, last, done>>

\* refreshBtn click
ManualTriggerIfIdle ==
    /\ timer # 0
    /\ CanStartCycle
    /\ \A c \in DOMAIN cyc : ~Running(c)
    /\ runChecks("manual")
    /\ UNCHANGED <<cfg, timer, last, sched, done>>
ManualTrigger ==
    /\ timer # 0
    /\ CanStartCycle
    /\ runChecks("manual")
    /\ UNCHANGED <<cfg, timer, last, sched, done>>

\* The setInterval callback.  A cycle started by the page load or by the timer
\* lasts at most MaxTargets * TIMEOUT_MS < REFRESH_EVERY_MS, so it has resolved
\* when the timer fires next; a cycle started by a click may be running.
TimerFire ==
    /\ timer # 0
    /\ CanStartCycle
    /\ \A c \in DOMAIN cyc : Running(c) => cyc[c].kind = "manual"
    /\ runChecks("timer")
    /\ sched' = IntervalFired(sched, timer)
    /\ UNCHANGED <<cfg, timer, last, done>>

\* The Phase-1 fetch resolves with a readable response.
Fetch1Resolve ==
    \E c \in DOMAIN cyc : \E p \in cyc[c].probes : \E d \in cfg.durs : \E s \in StatusCodes :
        LET now == p.at + d
            res == Response("basic", s)
            ms == Elapsed(now, p.t0, p.at)
        IN /\ p.pc = "p1"
           /\ now <= p.deadline
           /\ Complete(c, p, Call(p.idx, IF res.ok THEN "ok" ELSE "nonok", now,
                                  "none", now, s, 1, FALSE, Phase1Result(res, ms)))
           /\ UNCHANGED <<cfg, timer, sched>>

\* The Phase-1 fetch rejects (TypeError: CORS, DNS, connection); the catch
\* block issues the no-cors fetch.
Fetch1Reject ==
    \E c \in DOMAIN cyc : \E p \in cyc[c].probes : \E d \in cfg.durs :
        LET now == p.at + d
        IN /\ p.pc = "p1"
           /\ now <= p.deadline
           /\ cyc' = [cyc EXCEPT ![c].probes = (@ \ {p}) \cup
                        {[p EXCEPT !.pc = "p2", !.at = now,
                                   !.deadline = Phase2Deadline(p.deadline, now)]}]
           /\ UNCHANGED <<cfg, state, timer, summary, last, sched, done>>

\* The Phase-2 fetch resolves.
Fetch2Resolve ==
    \E c \in DOMAIN cyc : \E p \in cyc[c].probes : \E d \in cfg.durs : \E res2 \in Responses2 :
        LET now == p.at + d
            ms2 == Elapsed(now, p.t0, p.at)
        IN /\ p.pc = "p2"
           /\ now <= p.deadline
           /\ Complete(c, p, Call(p.idx, "TypeError", p.at, res2.type, now, res2.status,
                                  2, Phase2Sent(FALSE), Phase2Result(res2, ms2)))
           /\ UNCHANGED <<cfg, timer, sched>>

\* The Phase-2 fetch rejects (TypeError).
Fetch2Reject ==
    \E c \in DOMAIN cyc : \E p \in cyc[c].probes : \E d \in cfg.durs :
        LET now == p.at + d
        IN /\ p.pc = "p2"
           /\ now <= p.deadline
           /\ Complete(c, p, Call(p.idx, "TypeError", p.at, "TypeError", now, 0,
                                  2, Phase2Sent(FALSE), CatchResult("TypeError")))
           /\ UNCHANGED <<cfg, timer, sched>>

\* The probe's setTimeout callback: controller.abort().  The pending fetch
\* rejects with AbortError.  In Phase 1 the catch block then calls fetch with
\* the aborted signal, which rejects with AbortError without sending anything.
DeadlineFireIn(c) ==
    /\ c \in DOMAIN cyc
    /\ \E p \in cyc[c].probes :
        LET now == p.deadline
        IN Complete(c, p,
                IF p.pc = "p1"
                THEN Call(p.idx, "AbortError", now, "AbortError", now, 0,
                          2, Phase2Sent(TRUE), CatchResult("AbortError"))
                ELSE Call(p.idx, "TypeError", p.at, "AbortError", now, 0,
                          2, Phase2Sent(FALSE), CatchResult("AbortError")))
    /\ UNCHANGED <<cfg, timer, sched>>

DeadlineFire == \E c \in 1 .. MaxCycles : DeadlineFireIn(c)

Next ==
    \/ Startup
    \/ ManualTrigger
    \/ TimerFire
    \/ Fetch1Resolve
    \/ Fetch1Reject
    \/ Fetch2Resolve
    \/ Fetch2Reject
    \/ DeadlineFire

Spec == Init /\ [][Next]_vars

NextProbe ==
    \/ Startup
    \/ Fetch1Resolve
    \/ Fetch1Reject
    \/ Fetch2Resolve
    \/ Fetch2Reject
    \/ DeadlineFire

SpecProbe == InitProbe /\ [][NextProbe]_vars

\* Every probe has its own setTimeout, which the browser runs: a probe in
\* flight is settled or aborted in the end.
SpecFair ==
    /\ Init
    /\ [][Next]_vars
    /\ \A c \in 1 .. MaxCycles : WF_vars(DeadlineFireIn(c))

----------------------------------------------------------------------------
(* The worker pool *)

RunningCycles == {c \in DOMAIN cyc : Running(c)}

\* The probes in flight, over all cycles.
AllInFlight == UNION {{<<c, p>> : p \in cyc[c].probes} : c \in DOMAIN cyc}

Classified == {"UP", "UP_OPAQUE", "SLOW", "DOWN"}

\* C1: at every instant of a cycle, the checkTarget calls of that cycle that
\* have started and not returned number at most CONCURRENCY, whatever the
\* length of TARGETS (0 and lengths below CONCURRENCY included) and whatever
\* CONCURRENCY >= 1.
C1_CycleInFlightBound ==
    \A c \in DOMAIN cyc : Cardinality(InFlight(c)) <= cfg.conc

\* A cycle with CONCURRENCY probes in flight and targets still unclaimed.
C1_Witness ==
    \E c \in DOMAIN cyc : Cardinality(InFlight(c)) = cfg.conc /\ cyc[c].i < cfg.nT

\* C2 as stated: counting all running cycles together, at most CONCURRENCY
\* probes are in flight.
C2_EngineInFlightBound == Cardinality(AllInFlight) <= cfg.conc

\* C2 amended: the bound is per cycle, so the probes in flight over all
\* cycles number at most CONCURRENCY times the number of running cycles.
C2_InFlightBoundPerRunningCycle ==
    Cardinality(AllInFlight) <= cfg.conc * Cardinality(RunningCycles)

\* Two overlapping cycles that together exceed CONCURRENCY.
C2_Witness ==
    /\ Cardinality(RunningCycles) = 2
    /\ Cardinality(AllInFlight) = 2 * cfg.conc
    /\ cfg.conc = 2

\* C3: within a cycle every index of TARGETS is claimed exactly once: the
\* cursor i has handed out exactly the indexes below it, once each, no two
\* probes in flight have the same index, and a resolved cycle has handed out
\* every index.
C3_EachTargetClaimedOnce ==
    \A c \in DOMAIN cyc :
        /\ cyc[c].i <= cfg.nT
        /\ \A t \in Targets : cyc[c].claimed[t] = IF t < cyc[c].i THEN 1 ELSE 0
        /\ \A p, q \in cyc[c].probes : p.idx = q.idx => p = q
        /\ \A p \in cyc[c].probes : p.idx < cyc[c].i
        /\ cyc[c].pc = "resolved" => cyc[c].i = cfg.nT /\ cyc[c].probes = {}

\* A cycle of two workers over two targets that has resolved while another
\* cycle is still running.
C3_Witness ==
    \E c, k \in DOMAIN cyc :
        /\ cfg.nT = 2 /\ cfg.conc = 2
        /\ cyc[c].pc = "resolved" /\ Running(k)
        /\ \A t \in Targets : cyc[c].claimed[t] = 1

\* The cycles that resolve in a step.
Resolving(c) ==
    /\ c \in DOMAIN cyc'
    /\ cyc'[c].pc = "resolved"
    /\ c \in DOMAIN cyc => cyc[c].pc # "resolved"

\* C4 as stated: at the moment any runChecks invocation resolves, every target
\* has an entry whose status is not CHECKING, also when another cycle started
\* while this one was running.
C4_CompleteAtResolve ==
    [][\A c \in 1 .. MaxCycles :
          Resolving(c) => \A t \in Targets : state'[t].status \in Classified]_vars

\* C4 amended: a resolved cycle has probed every target and stored each
\* result; once the cycle started last has resolved (no cycle started after
\* it), every target has an entry whose status is not CHECKING.
C4_CompleteUnlessOverlapped ==
    /\ \A c \in DOMAIN cyc :
          cyc[c].pc = "resolved" =>
              /\ cyc[c].probes = {}
              /\ cyc[c].renders = cfg.nT + 1
              /\ \A t \in Targets : cyc[c].claimed[t] >= 1
    /\ (cyc # << >> /\ cyc[Len(cyc)].pc = "resolved") =>
          \A t \in Targets : state[t].status \in Classified

\* The cycle started last has resolved while an older one is still running.
C4_Witness ==
    /\ Len(cyc) = 2 /\ cfg.nT = 2
    /\ cyc[2].pc = "resolved" /\ Running(1)

----------------------------------------------------------------------------
(* checkTarget, call by call *)

Returned == last # NoCall

\* The time from t0 to the settling of the last fetch of the call.
CallElapsed == IF last.o2 = "none" THEN last.t1 ELSE last.t2

\* The call received a response that counts as success: a readable ok one in
\* Phase 1, or in Phase 2 an opaque one or a readable ok one.
CallSucceeded ==
    \/ last.o1 = "ok"
    \/ last.o2 = "opaque"
    \/ last.o2 = "basic" /\ ResponseOk(last.code)

\* C5: checkTarget is total: whatever the outcome of Phase 1 (resolves ok,
\* resolves non-ok, rejects, is aborted by the deadline) and of Phase 2
\* (resolves opaque, resolves readable, is aborted, rejects otherwise) it
\* returns a result whose status is UP, UP_OPAQUE, SLOW or DOWN: it never
\* rejects and never returns CHECKING, and what the worker stores is that result.
C5_CheckTargetTotal ==
    /\ Returned =>
          /\ last.result.status \in Classified
          /\ last.o1 \in {"ok", "nonok", "TypeError", "AbortError"}
          /\ last.o1 \in {"ok", "nonok"} <=> last.o2 = "none"
          /\ state[last.idx] \in {last.result, CheckingEntry}
    /\ \A t \in Targets : state[t].status \in Classified \cup {"CHECKING", "ABSENT"}

\* Both fetches rejected and the call still returned a result.
C5_Witness ==
    /\ last.o1 = "TypeError" /\ last.o2 = "TypeError"
    /\ last.result.status = "DOWN"

\* The reference classification of C6; the claim does not say what a readable
\* Phase-2 response gives.
Reference ==
    CASE last.o1 = "ok" ->
            Entry(IF last.t1 <= 1200 THEN "UP" ELSE "SLOW", last.t1, HttpNote(last.code))
      [] last.o1 = "nonok" ->
            Entry("DOWN", last.t1, HttpNote(last.code))
      [] last.o2 = "opaque" ->
            Entry(IF last.t2 <= 1200 THEN "UP_OPAQUE" ELSE "SLOW", last.t2,
                  "CORS blocked details")
      [] last.o2 = "AbortError" -> Entry("DOWN", Null, "timeout")
      [] last.o2 = "TypeError" -> Entry("DOWN", Null, "unreachable")
      [] OTHER -> last.result

\* C6: the result of checkTarget is the reference classification: readable ok
\* in Phase 1 gives UP up to 1200 ms and SLOW beyond, note "HTTP <code>",
\* latency the elapsed time, and no Phase 2; readable non-ok gives DOWN with
\* that note and latency, and no Phase 2; Phase 1 failing and Phase 2
\* resolving opaque gives UP_OPAQUE up to 1200 ms and SLOW beyond, note "CORS
\* blocked details"; Phase 2 failing by the deadline gives DOWN, "timeout", no
\* latency; Phase 2 failing otherwise gives DOWN, "unreachable", no latency.
C6_ResultIsReference ==
    Returned =>
        /\ last.result = Reference
        /\ last.o1 \in {"ok", "nonok"} => last.calls = 1 /\ ~last.sent2

\* Phase 1 rejected after 500 ms and the opaque Phase-2 response came 700 ms
\* later: 1200 ms in all, UP_OPAQUE.
C6_Witness ==
    /\ last.o1 = "TypeError" /\ last.o2 = "opaque"
    /\ last.t1 = 500 /\ last.t2 = 1200
    /\ last.result = Entry("UP_OPAQUE", 1200, "CORS blocked details")

\* C7: the threshold is on the time since t0, over both phases: a call that
\* received a successful response within 1200 ms gives UP or UP_OPAQUE, one
\* that received it later gives SLOW, also when each phase alone took less
\* than 1200 ms; no call that took 1200 ms or less gives SLOW; the latency
\* reported is the time since t0.
C7_ThresholdLaw ==
    Returned =>
        /\ CallSucceeded /\ CallElapsed <= 1200 => last.result.status \in {"UP", "UP_OPAQUE"}
        /\ CallSucceeded /\ CallElapsed > 1200 => last.result.status = "SLOW"
        /\ CallElapsed <= 1200 => last.result.status # "SLOW"
        /\ CallSucceeded => last.result.latencyMs = CallElapsed

\* Each phase took 700 ms, 1400 ms in all: SLOW.
C7_Witness ==
    /\ last.o2 = "opaque"
    /\ last.t1 = 700 /\ last.t2 = 1400
    /\ last.result.status = "SLOW"

\* An entry made from a readable non-ok response.
HttpDown(e) == e.status = "DOWN" /\ e.note \in {HttpNote(c) : c \in StatusCodes}

\* C8: in every reachable state every entry of the Map has a latency if and
\* only if its status is UP, UP_OPAQUE or SLOW, or it is the DOWN of a readable
\* non-ok status; the latency is null for DOWN "timeout", DOWN "unreachable"
\* and CHECKING.
C8_LatencyPresence ==
    \A t \in Targets :
        LET e == state[t]
        IN e.status # "ABSENT" =>
              /\ e.latencyMs # Null <=> (e.status \in {"UP", "UP_OPAQUE", "SLOW"} \/ HttpDown(e))
              /\ e.latencyMs # Null => e.latencyMs >= 0
              /\ e.status = "CHECKING" => e.latencyMs = Null
              /\ e.status = "DOWN" /\ e.note \in {"timeout", "unreachable"} => e.latencyMs = Null

\* A Map holding a DOWN with a latency next to a DOWN without one.
C8_Witness ==
    \E t, u \in Targets :
        /\ state[t] = Entry("DOWN", 700, "HTTP 500")
        /\ state[u] = Entry("DOWN", Null, "timeout")

\* C9: one deadline per checkTarget call, armed at its start and shared by
\* both phases: every probe in flight, in either phase, is aborted TIMEOUT_MS
\* after t0; no fetch settles later than that; a call aborted by the deadline
\* ends TIMEOUT_MS after t0 with DOWN, "timeout" and no latency, so a Phase 2
\* started d after t0 has TIMEOUT_MS - d left.
C9_SharedDeadline ==
    /\ \A c \in DOMAIN cyc : \A p \in cyc[c].probes :
          p.deadline = p.t0 + TIMEOUT_MS /\ p.at <= p.deadline
    /\ Returned =>
          /\ CallElapsed <= TIMEOUT_MS
          /\ last.o2 # "none" => last.t2 - last.t1 <= TIMEOUT_MS - last.t1
          /\ last.o2 = "AbortError" =>
                /\ last.t2 = TIMEOUT_MS
                /\ last.result = Entry("DOWN", Null, "timeout")

\* Phase 1 rejected after 700 ms and Phase 2 was aborted 7300 ms later.
C9_Witness ==
    /\ last.o1 = "TypeError" /\ last.t1 = 700
    /\ last.o2 = "AbortError" /\ last.t2 - last.t1 = TIMEOUT_MS - 700

\* C10 as stated: when the deadline aborts Phase 1, checkTarget returns DOWN,
\* "timeout", no latency, and makes no Phase-2 fetch.
C10_NoPhase2AfterDeadline ==
    last.o1 = "AbortError" =>
        /\ last.result = Entry("DOWN", Null, "timeout")
        /\ last.calls = 1
        /\ last.o2 = "none"

\* C10 amended: when the deadline aborts Phase 1, the catch block still calls
\* the no-cors fetch, with the aborted signal: that fetch rejects with
\* AbortError at once and sends no request, and checkTarget returns DOWN,
\* "timeout", no latency.
C10_Phase2CalledButNothingSent ==
    last.o1 = "AbortError" =>
        /\ last.result = Entry("DOWN", Null, "timeout")
        /\ last.calls = 2
        /\ last.o2 = "AbortError" /\ last.t2 = last.t1
        /\ ~last.sent2

\* A call whose Phase 1 was aborted by the deadline.
C10_Witness == last.o1 = "AbortError" /\ last.t1 = TIMEOUT_MS

----------------------------------------------------------------------------
(* Cycles from start to end *)

Resolved(c) == c \in DOMAIN cyc /\ cyc[c].pc = "resolved"

\* A probe of cycle c returns in this step.
ProbeReturns(c) ==
    /\ c \in DOMAIN cyc
    /\ \E p \in cyc[c].probes : \A q \in cyc'[c].probes : q.idx # p.idx

\* C11: every started cycle completes: as every probe is settled or aborted in
\* the end, every runChecks invocation resolves in the end, also while other
\* cycles overlap it; and whatever a probe returns (DOWN, timeout, unreachable
\* included), the worker that awaited it claims the next unclaimed target in
\* the same step if there is one.
C11_EveryCycleCompletes ==
    /\ \A c \in 1 .. MaxCycles : (c \in DOMAIN cyc /\ Running(c)) ~> Resolved(c)
    /\ [][\A c \in 1 .. MaxCycles :
            ProbeReturns(c) /\ cyc[c].i < cfg.nT =>
                /\ cyc'[c].i = cyc[c].i + 1
                /\ Cardinality(cyc'[c].probes) = Cardinality(cyc[c].probes)
                /\ cyc'[c].returned = cyc[c].returned]_vars

\* The first cycle, one worker over two targets, has resolved after both of its
\* probes came back DOWN, while a second cycle is running.
C11_Witness ==
    /\ cfg.nT = 2 /\ cfg.conc = 1
    /\ Resolved(1) /\ Len(cyc) >= 2 /\ Running(2)
    /\ \A t \in Targets : done[t].by = 1 /\ done[t].result.status = "DOWN"

----------------------------------------------------------------------------
(* Publication *)

\* A step in which runChecks is called.
CycleStarts == Len(cyc') = Len(cyc) + 1

\* The probes that have returned to their worker in cycle c.
Completed(c) == cyc[c].i - Cardinality(cyc[c].probes)

\* C12: the step that starts a cycle leaves every target's entry CHECKING with
\* no latency and an empty note, the observer has been notified once in that
\* cycle, of a store that is CHECKING throughout, and the cycle's probes are
\* launched on that store: each is at the start of its first request.
C12_CheckingPassBeforeProbes ==
    [][CycleStarts =>
          LET c == cyc'[Len(cyc')]
          IN /\ \A t \in Targets : state'[t] = Entry("CHECKING", Null, "")
             /\ c.renders = 1
             /\ summary' = [up |-> 0, down |-> 0, checking |-> cfg.nT]
             /\ \A p \in c.probes : p.pc = "p1" /\ p.at = p.t0]_vars

\* A second cycle has just started over a store that held results.
C12_Witness ==
    /\ cfg.nT = 2
    /\ Len(cyc) >= 2
    /\ cyc[Len(cyc)].renders = 1
    /\ cyc[Len(cyc)].probes # {}
    /\ \A t \in Targets : state[t] = CheckingEntry
    /\ \E t \in Targets : done[t].result.status \in Classified

\* C13: a cycle has notified the observer once for its CHECKING pass and once
\* for each probe that has returned, N + 1 times when it resolves; and the
\* step in which a probe returns writes its result to the store and notifies
\* the observer of the store so written, whatever else is in flight.
C13_IncrementalPublication ==
    /\ [](\A c \in DOMAIN cyc :
            /\ cyc[c].renders = 1 + Completed(c)
            /\ Resolved(c) => cyc[c].renders = cfg.nT + 1)
    /\ [][\A c \in 1 .. MaxCycles :
            ProbeReturns(c) =>
                /\ state'[last'.idx] = StoreEntry(last'.result)
                /\ summary' = Summarize(state')
                /\ cyc'[c].renders = cyc[c].renders + 1]_vars

\* One result of a two-target cycle is in the store while the other probe is
\* still in flight.
C13_Witness ==
    /\ cfg.nT = 2
    /\ Len(cyc) = 1
    /\ Running(1)
    /\ cyc[1].renders = 2
    /\ cyc[1].probes # {}
    /\ \E t \in Targets : state[t].status \in Classified
    /\ \E t \in Targets : state[t] = CheckingEntry
    /\ summary.checking = 1

----------------------------------------------------------------------------
(* The scheduler *)

\* A step in which the setInterval callback runs.
TimerFires == CycleStarts /\ cyc'[Len(cyc')].kind = "timer"

\* A step in which the refresh button's click handler runs.
ManualFires == CycleStarts /\ cyc'[Len(cyc')].kind = "manual"

Delays == {REFRESH_EVERY_MS + j : j \in JitterSamples}

\* C14 as stated: the jitter is recomputed for each firing, so every firing of
\* the periodic timer draws the delay to the next one.
C14_JitterPerFiring ==
    [][TimerFires => sched'.draws = sched.draws + 1]_vars

\* C14, amended: the delay is drawn once, when the timer is set at page load,
\* and is the gap before every firing: no firing draws again, the timer's
\* delay never changes, and two consecutive gaps are equal.
C14_JitterDrawnOnce ==
    /\ [](/\ sched.draws = (IF timer = 0 THEN 0 ELSE 1)
          /\ timer # 0 => timer \in Delays
          /\ sched.lastGap \in {0, timer}
          /\ sched.prevGap \in {0, sched.lastGap})
    /\ [][timer # 0 => timer' = timer]_vars

\* The timer has fired twice, after the same jittered delay.
C14_Witness ==
    /\ timer = REFRESH_EVERY_MS + JITTER_MS - 1
    /\ sched.prevGap = timer
    /\ sched.lastGap = timer
    /\ Len(cyc) = 3
    /\ cyc[2].kind = "timer" /\ cyc[3].kind = "timer"

Min(a, b) == IF a < b THEN a ELSE b

\* C15: once the page has loaded, a click starts a cycle in every state of the
\* scheduler and of the cycles in progress; the cycle so started is a new
\* runChecks invocation with its own workers and probes, beside the cycles
\* already there, which it leaves as they were; the click does not touch the
\* periodic timer, and whatever clicks came before, a periodic firing comes
\* one timer delay after the previous one.
C15_ManualTriggerAlwaysStarts ==
    /\ []((timer # 0 /\ CanStartCycle) => ENABLED ManualTrigger)
    /\ [][ManualFires =>
            /\ timer' = timer
            /\ sched' = sched
            /\ SubSeq(cyc', 1, Len(cyc)) = cyc
            /\ cyc'[Len(cyc')].i = Min(cfg.conc, cfg.nT)
            /\ Cardinality(cyc'[Len(cyc')].probes) = Min(cfg.conc, cfg.nT)]_vars
    /\ [][TimerFires => timer' = timer /\ sched'.lastGap = timer]_vars

\* Two clicks in a row: both manual cycles are running side by side.
C15_Witness ==
    /\ Len(cyc) = 3
    /\ cyc[2].kind = "manual" /\ Running(2)
    /\ cyc[3].kind = "manual" /\ Running(3)
    /\ cyc[2].probes # {} /\ cyc[3].probes # {}
    /\ sched.draws = 1

----------------------------------------------------------------------------
(* The store under overlapping cycles *)

\* done[t] is the probe of target t that returned last, and the cycle it
\* belonged to.
LastResult(t) == StoreEntry(done[t].result)

\* C16: a target's entry is CHECKING or the result of the probe of that target
\* that returned last, whichever cycle issued it; when no cycle is running,
\* every target's entry is the result of its probe that returned last.
C16_LastWriteWins ==
    /\ \A t \in Targets : state[t] \in {CheckingEntry, LastResult(t)}
    /\ (cyc # << >> /\ RunningCycles = {}) =>
            \A t \in Targets : done[t].by # 0 /\ state[t] = LastResult(t)

\* Two cycles probed target t and both have resolved; the probe that returned
\* last was the older cycle's, and its result is the entry.
C16_Witness ==
    /\ Len(cyc) = 2
    /\ RunningCycles = {}
    /\ \E t \in Targets :
          /\ cyc[1].claimed[t] = 1 /\ cyc[2].claimed[t] = 1
          /\ done[t].by = 1
          /\ state[t] = LastResult(t)
          /\ state[t].status \in Classified

\* C17: between event-loop tasks, a cycle has exactly `concurrency` probes in
\* flight while at least that many of its targets have not completed, and
\* exactly as many as have not completed once fewer remain.
C17_WorkConserving ==
    \A c \in DOMAIN cyc :
        Cardinality(InFlight(c)) = Min(cfg.conc, cfg.nT - Completed(c))

\* One worker over two targets: the first probe has returned and the second is
\* in flight.
C17_Witness ==
    /\ cfg.nT = 2 /\ cfg.conc = 1
    /\ \E c \in DOMAIN cyc :
          /\ Completed(c) = 1
          /\ Cardinality(InFlight(c)) = 1
          /\ \E p \in InFlight(c) : p.idx = 1

\* C18: when at least one cycle has started and no runChecks invocation is in
\* progress, every target has an entry and no entry is CHECKING, however many
\* cycles overlapped and in whatever order their probes returned.
C18_NoCheckingAtRest ==
    (cyc # << >> /\ RunningCycles = {}) =>
        \A t \in Targets : state[t].status \in Classified

\* A page-load cycle, a click and a timer firing, overlapping, have all
\* resolved.
C18_Witness ==
    /\ cfg.nT = 1
    /\ Len(cyc) = 3
    /\ RunningCycles = {}
    /\ \E c \in DOMAIN cyc : cyc[c].kind = "manual"
    /\ \E c \in DOMAIN cyc : cyc[c].kind = "timer"
    /\ \A t \in Targets : done[t].by # Len(cyc) /\ state[t].status \in Classified

----------------------------------------------------------------------------
(* Classification of the second response; the summary line *)

\* C19: checkTarget returns UP only if a response it received was readable
\* and had an ok status: the Phase-1 response, or a Phase-2 response that is
\* not opaque and ok.
C19_UpOnlyIfInspectableOk ==
    (Returned /\ last.result.status = "UP") =>
        \/ last.o1 = "ok"
        \/ last.o2 = "basic" /\ ResponseOk(last.code)

\* The Phase-1 fetch rejected and the no-cors fetch resolved within 1200 ms
\* with a readable response of status 500: the call returned UP, note "OK".
C19_Witness ==
    /\ Returned
    /\ last.o1 = "TypeError"
    /\ last.o2 = "basic" /\ last.code = 500
    /\ CallElapsed <= SLOW_MS
    /\ last.result = Entry("UP", CallElapsed, "OK")

CountStatus(statuses) == Cardinality({t \in Targets : state[t].status \in statuses})

\* C20: the counts of the latest notification match the store: up counts the
\* entries UP or UP_OPAQUE, down the entries DOWN, checking the targets with
\* no entry or a CHECKING one.
C20_SummaryMatchesStore ==
    cyc # << >> =>
        summary = [up |-> CountStatus({"UP", "UP_OPAQUE"}),
                   down |-> CountStatus({"DOWN"}),
                   checking |-> CountStatus({"ABSENT", "CHECKING"})]

\* No cycle is running, the one target is SLOW, and the summary says one
\* target is checking.
C20_Witness ==
    /\ cfg.nT = 1
    /\ cyc # << >>
    /\ RunningCycles = {}
    /\ state[0].status = "SLOW"
    /\ summary = [up |-> 0, down |-> 0, checking |-> 1]

====
